---------------------------- MODULE Spec2Model ----------------------------
(***************************************************************************)
(* OfflineU / StudyingPortal (src/offlineu_core.py): the directory scan    *)
(* (DynamicCourseParser), the progress store (ProgressTracker) and the     *)
(* request handlers that use them, as a state machine.                     *)
(*                                                                         *)
(* Strings are Python strings; a path is a string with "/" separators.     *)
(* The filesystem is a set of entries below the course directory.          *)
(***************************************************************************)
EXTENDS Integers, Sequences, FiniteSets, TLC

VARIABLES
    fs,              \* the filesystem below the course directory: a set of entries
    call,            \* the call stack of _build_directory_tree during load_course
    current_course,  \* the global current_course (NoneVal or a Course)
    store,           \* the progress file .studyingportal_progress.json
    clock,           \* datetime.now(), as a counter
    threads,         \* update_lesson_progress calls in flight (position and locals)
    response         \* the last response a handler returned

vars == <<fs, call, current_course, store, clock, threads, response>>

(***************************************************************************)
(* Bounds of the model.                                                    *)
(***************************************************************************)
MaxEntries == 3      \* entries (files, directories, links) in the filesystem
MaxClock == 2        \* timestamps datetime.now() hands out: 1..MaxClock
MaxThreads == 2      \* concurrent update_lesson_progress calls

(***************************************************************************)
(* Python values.                                                          *)
(***************************************************************************)
NoneVal == "None"

\* The characters of the model's strings, in code point order.
Chars == " -./0123456789ABCDEFGHIJKLMNOPQRSTUVWXYZ\\_abcdefghijklmnopqrstuvwxyz"
UpperCase == "ABCDEFGHIJKLMNOPQRSTUVWXYZ"
LowerCase == "abcdefghijklmnopqrstuvwxyz"
Digits == "0123456789"

CharAt(s, i) == SubSeq(s, i, i)
StrTail(s) == SubSeq(s, 2, Len(s))
InStr(c, s) == \E i \in 1..Len(s) : CharAt(s, i) = c
IndexIn(c, s) == CHOOSE i \in 1..Len(s) : CharAt(s, i) = c
Ord(c) == IndexIn(c, Chars)

\* str.lower() and str.upper() of one character
LowerChar(c) == IF InStr(c, UpperCase) THEN CharAt(LowerCase, IndexIn(c, UpperCase)) ELSE c
UpperChar(c) == IF InStr(c, LowerCase) THEN CharAt(UpperCase, IndexIn(c, LowerCase)) ELSE c

RECURSIVE StrLower(_)
StrLower(s) == IF s = "" THEN "" ELSE LowerChar(CharAt(s, 1)) \o StrLower(StrTail(s))

\* s < t for Python strings: lexicographic on code points
RECURSIVE StrLess(_, _)
StrLess(s, t) ==
    IF t = "" THEN FALSE
    ELSE IF s = "" THEN TRUE
    ELSE IF CharAt(s, 1) = CharAt(t, 1) THEN StrLess(StrTail(s), StrTail(t))
    ELSE Ord(CharAt(s, 1)) < Ord(CharAt(t, 1))

StartsWith(s, p) == Len(p) <= Len(s) /\ SubSeq(s, 1, Len(p)) = p
\* sub in s
Contains(s, sub) == \E i \in 1..(Len(s) - Len(sub) + 1) : SubSeq(s, i, i + Len(sub) - 1) = sub

\* str.replace(a, b) for a single character a
RECURSIVE StrReplace(_, _, _)
StrReplace(s, a, b) ==
    IF s = "" THEN ""
    ELSE (IF CharAt(s, 1) = a THEN b ELSE CharAt(s, 1)) \o StrReplace(StrTail(s), a, b)

\* the longest prefix of s made of characters of cs, removed
RECURSIVE DropWhile(_, _)
DropWhile(s, cs) ==
    IF s # "" /\ InStr(CharAt(s, 1), cs) THEN DropWhile(StrTail(s), cs) ELSE s

\* str.split(): the maximal runs of non-whitespace characters
RECURSIVE SplitWords(_, _)
SplitWords(s, word) ==
    IF s = "" THEN (IF word = "" THEN <<>> ELSE <<word>>)
    ELSE IF CharAt(s, 1) = " "
         THEN (IF word = "" THEN <<>> ELSE <<word>>) \o SplitWords(StrTail(s), "")
         ELSE SplitWords(StrTail(s), word \o CharAt(s, 1))

\* sep.join(words)
RECURSIVE StrJoin(_, _)
StrJoin(words, sep) ==
    IF words = <<>> THEN ""
    ELSE IF Len(words) = 1 THEN words[1]
    ELSE words[1] \o sep \o StrJoin(Tail(words), sep)

\* str.capitalize()
Capitalize(w) == IF w = "" THEN "" ELSE UpperChar(CharAt(w, 1)) \o StrLower(StrTail(w))

\* the position of the last "." of name, 0 when there is none (str.rfind, 1-based)
LastDot(name) ==
    IF InStr(".", name)
    THEN CHOOSE i \in 1..Len(name) :
            CharAt(name, i) = "." /\ \A j \in (i + 1)..Len(name) : CharAt(name, j) # "."
    ELSE 0

\* pathlib: PurePath.suffix and PurePath.stem of a file name
PathSuffix(name) ==
    LET i == LastDot(name)
    IN IF 1 < i /\ i < Len(name) THEN SubSeq(name, i, Len(name)) ELSE ""
PathStem(name) ==
    LET i == LastDot(name)
    IN IF 1 < i /\ i < Len(name) THEN SubSeq(name, 1, i - 1) ELSE name

\* path / name
PathJoin(p, name) == IF p = "" THEN name ELSE p \o "/" \o name

\* os.path.relpath(p, start) for p at or below start
RelPath(p, start) ==
    IF p = start THEN "." ELSE SubSeq(p, Len(start) + 2, Len(p))

(***************************************************************************)
(* Supported file types                                                    *)
(***************************************************************************)
VIDEO_EXTENSIONS == {".mp4", ".mkv", ".avi", ".mov", ".webm", ".m4v", ".flv", ".wmv"}
AUDIO_EXTENSIONS == {".mp3", ".wav", ".m4a", ".aac", ".ogg", ".flac"}
SUBTITLE_EXTENSIONS == {".srt", ".vtt", ".ass", ".sub", ".sbv"}
TEXT_EXTENSIONS == {".txt", ".md", ".html", ".htm", ".pdf", ".docx", ".doc", ".rtf"}
QUIZ_INDICATORS == {"quiz", "exam", "test", "assessment", "exercise", "assignment", "homework"}
IGNORED_EXTENSIONS == {".log", ".tmp", ".bak", ".swp", ".DS_Store", ".Thumbs.db"}


(***************************************************************************)
(* Data model: Lesson, DirectoryNode, Course.  An Optional[Lesson] or      *)
(* Optional[Course] is a sequence of at most one element; an               *)
(* Optional[str] is a string or NoneVal.                                   *)
(***************************************************************************)
Lesson(title, path, lesson_type, video_file, audio_file, subtitle_file, text_files) ==
    [title |-> title, path |-> path, lesson_type |-> lesson_type,
     video_file |-> video_file, audio_file |-> audio_file,
     subtitle_file |-> subtitle_file, text_files |-> text_files,
     completed |-> FALSE, last_accessed |-> NoneVal, progress_seconds |-> 0,
     order |-> 0]

\* children is the dict in insertion order: a sequence of nodes with distinct names
DirectoryNode(name, path, type, order) ==
    [name |-> name, path |-> path, type |-> type, children |-> <<>>,
     lessons |-> <<>>, completed |-> FALSE, last_accessed |-> NoneVal,
     order |-> order, has_content |-> FALSE]

Course(name, path, root_node, progress_file) ==
    [name |-> name, path |-> path, root_node |-> root_node,
     progress_file |-> progress_file, last_accessed_path |-> NoneVal]

\* node.children[child.name] = child
DictPut(children, child) ==
    IF \E i \in 1..Len(children) : children[i].name = child.name
    THEN [i \in 1..Len(children) |->
            IF children[i].name = child.name THEN child ELSE children[i]]
    ELSE Append(children, child)

(***************************************************************************)
(* DynamicCourseParser._clean_lesson_name                                  *)
(***************************************************************************)
\* re.sub(r'^\d+[\.\-_\s]*', '', name)
StripLeadingNumber(name) ==
    IF name # "" /\ InStr(CharAt(name, 1), Digits)
    THEN DropWhile(DropWhile(name, Digits), ".-_ ")
    ELSE name

\* re.sub(r'[-_]+', ' ', name)
RECURSIVE ReplaceDashRuns(_)
ReplaceDashRuns(name) ==
    IF name = "" THEN ""
    ELSE IF InStr(CharAt(name, 1), "-_")
         THEN " " \o ReplaceDashRuns(DropWhile(name, "-_"))
         ELSE CharAt(name, 1) \o ReplaceDashRuns(StrTail(name))

RECURSIVE CapitalizeAll(_)
CapitalizeAll(words) ==
    IF words = <<>> THEN <<>>
    ELSE <<Capitalize(Head(words))>> \o CapitalizeAll(Tail(words))

_clean_lesson_name(stem) ==
    LET n1 == StripLeadingNumber(stem)
        n2 == ReplaceDashRuns(n1)
        n3 == StrJoin(CapitalizeAll(SplitWords(n2, "")), " ")
    IN IF DropWhile(n3, " ") # "" THEN n3 ELSE "Untitled Lesson"

(***************************************************************************)
(* DynamicCourseParser._create_lesson_from_file: <<>> for None             *)
(***************************************************************************)
\* _create_lesson_from_file with the quiz indicators looked at before the extension
_create_lesson_from_file_QuizFirst(file_path, file_name, course_path) ==
    LET ext == StrLower(PathSuffix(file_name))
        filename == StrLower(file_name)
        relative_path == StrReplace(RelPath(file_path, course_path), "\\", "/")
        display_name == _clean_lesson_name(PathStem(file_name))
    IN IF ext \in IGNORED_EXTENSIONS THEN <<>>
       ELSE IF \E indicator \in QUIZ_INDICATORS : Contains(filename, indicator)
            THEN <<Lesson(display_name, file_path, "quiz", NoneVal, NoneVal, NoneVal,
                          <<relative_path>>)>>
       ELSE IF ext \in VIDEO_EXTENSIONS
            THEN <<Lesson(display_name, file_path, "video", relative_path, NoneVal, NoneVal, <<>>)>>
       ELSE IF ext \in AUDIO_EXTENSIONS
            THEN <<Lesson(display_name, file_path, "audio", NoneVal, relative_path, NoneVal, <<>>)>>
       ELSE IF ext \in SUBTITLE_EXTENSIONS THEN <<>>
       ELSE IF ext \in TEXT_EXTENSIONS
            THEN <<Lesson(display_name, file_path, "text", NoneVal, NoneVal, NoneVal,
                          <<relative_path>>)>>
       ELSE <<>>

_create_lesson_from_file(file_path, file_name, course_path) ==
    LET ext == StrLower(PathSuffix(file_name))
        filename == StrLower(file_name)
        relative_path == StrReplace(RelPath(file_path, course_path), "\\", "/")
        display_name == _clean_lesson_name(PathStem(file_name))
    IN IF ext \in IGNORED_EXTENSIONS THEN <<>>
       ELSE IF ext \in VIDEO_EXTENSIONS
            THEN <<Lesson(display_name, file_path, "video", relative_path, NoneVal, NoneVal, <<>>)>>
       ELSE IF ext \in AUDIO_EXTENSIONS
            THEN <<Lesson(display_name, file_path, "audio", NoneVal, relative_path, NoneVal, <<>>)>>
       ELSE IF ext \in SUBTITLE_EXTENSIONS THEN <<>>
       ELSE IF ext \in TEXT_EXTENSIONS
            THEN <<Lesson(display_name, file_path,
                          IF \E indicator \in QUIZ_INDICATORS : Contains(filename, indicator)
                          THEN "quiz" ELSE "text",
                          NoneVal, NoneVal, NoneVal, <<relative_path>>)>>
       ELSE <<>>

(***************************************************************************)
(* The filesystem.  An entry lies in the real directory `parent` (a path   *)
(* relative to the course directory, "" for the course directory itself):  *)
(* a file, a directory (readable or not: listing an unreadable directory   *)
(* raises PermissionError), or a symbolic link to a directory.             *)
(***************************************************************************)
CoursePath == "/c"
DirNames == {"m", ".g"}
FileNames == {"a.mp4", "2-b_c.txt", "s.srt"}
LinkName == "ln"

FileEntry(parent, name) ==
    [parent |-> parent, name |-> name, kind |-> "file", target |-> "", readable |-> TRUE]
DirEntry(parent, name, readable) ==
    [parent |-> parent, name |-> name, kind |-> "dir", target |-> "", readable |-> readable]
LinkEntry(parent, target) ==
    [parent |-> parent, name |-> LinkName, kind |-> "link", target |-> target, readable |-> TRUE]

\* the real directories of the filesystem f, the course directory included
RealDirs(f) == {""} \cup {PathJoin(e.parent, e.name) : e \in {x \in f : x.kind = "dir"}}
Readable(f, real) == \A e \in f : (e.kind = "dir" /\ PathJoin(e.parent, e.name) = real) => e.readable
NameTaken(f, parent, name) == \E e \in f : e.parent = parent /\ e.name = name

\* Path.is_file(), Path.is_dir() (a link to a directory is a directory)
IsFile(e) == e.kind = "file"
IsDir(e) == e.kind \in {"dir", "link"}
\* the real directory an entry that is a directory leads to
RealOf(e) == IF e.kind = "link" THEN e.target ELSE PathJoin(e.parent, e.name)

\* sorted(current_path.iterdir(), key=lambda x: (x.is_file(), x.name.lower())):
\* iterdir yields the entries in any order and sorted is stable, so the result is
\* any arrangement of the entries in which the keys never decrease
SortKeyLess(x, y) ==
    \/ ~IsFile(x) /\ IsFile(y)
    \/ IsFile(x) = IsFile(y) /\ StrLess(StrLower(x.name), StrLower(y.name))
SortedListings(f, real) ==
    LET es == {e \in f : e.parent = real}
        n == Cardinality(es)
    IN {s \in [1..n -> es] :
            /\ \A i, j \in 1..n : i # j => s[i] # s[j]
            /\ \A i, j \in 1..n : i < j => ~SortKeyLess(s[j], s[i])}

(***************************************************************************)
(* DynamicCourseParser._build_directory_tree, one step at a time.  `call`  *)
(* is the stack of its activations, the innermost last.  A frame keeps the *)
(* path as the program sees it, the real directory the path leads to, the  *)
(* depth, the items still to process and the node being built.  While a    *)
(* recursive call runs, the caller's first item is the subdirectory.       *)
(***************************************************************************)
MAX_DEPTH == 10

\* Path.name
RECURSIVE BaseName(_)
BaseName(path) ==
    IF InStr("/", path) THEN BaseName(StrTail(path)) ELSE path

\* the outcomes of sorted(current_path.iterdir(), ...): listing an unreadable
\* directory raises PermissionError, which leaves the loop without any item
Listings(f, real) == IF Readable(f, real) THEN SortedListings(f, real) ELSE {<<>>}

\* NewFrame without the depth check
NewFrame_NoDepthCheck(course_path, current_path, real, depth, items) ==
    [path |-> current_path, real |-> real, depth |-> depth, items |-> items,
     node |-> DirectoryNode(IF current_path # course_path
                            THEN BaseName(current_path) ELSE "Course Root",
                            current_path, "directory", depth)]

\* the activation _build_directory_tree(course_path, current_path, depth), past
\* its depth check and its listing
NewFrame(course_path, current_path, real, depth, items) ==
    IF depth > MAX_DEPTH
    THEN [path |-> current_path, real |-> real, depth |-> depth, items |-> <<>>,
          node |-> DirectoryNode(BaseName(current_path), current_path, "directory", 0)]
    ELSE [path |-> current_path, real |-> real, depth |-> depth, items |-> items,
          node |-> DirectoryNode(IF current_path # course_path
                                 THEN BaseName(current_path) ELSE "Course Root",
                                 current_path, "directory", depth)]

Top == call[Len(call)]
SetTop(frame) == [call EXCEPT ![Len(call)] = frame]
Scanning == call # <<>>
Hidden(e) == StartsWith(e.name, ".")

\* the paths a load_course request may name
CoursePathInputs == {"", "/nope", "/f.txt", CoursePath}
PathExists(p) == p \in {"/f.txt", CoursePath}
PathIsDir(p) == p = CoursePath

\* the last response, with the request it answers; repeat tells that the request
\* before it was the same request
Response(op, status) ==
    [op |-> op, status |-> status, lesson_path |-> "", completed |-> FALSE,
     progress_seconds |-> 0, repeat |-> FALSE]

\* if item.name.startswith('.'): continue
BuildSkipHidden ==
    /\ Scanning /\ Top.items # <<>>
    /\ Hidden(Head(Top.items))
    /\ call' = SetTop([Top EXCEPT !.items = Tail(@)])
    /\ UNCHANGED <<fs, current_course, store, clock, threads, response>>

\* if item.is_dir(): child_node = _build_directory_tree(course_path, item, depth + 1)
BuildRecurse ==
    /\ Scanning /\ Top.items # <<>>
    /\ LET item == Head(Top.items)
       IN /\ ~Hidden(item) /\ IsDir(item)
          /\ \E items \in Listings(fs, RealOf(item)) :
                call' = Append(call, NewFrame(call[1].path, PathJoin(Top.path, item.name),
                                              RealOf(item), Top.depth + 1, items))
    /\ UNCHANGED <<fs, current_course, store, clock, threads, response>>

\* the lessons of a node with one more lesson, or the same when there is none
AddLesson(node, lesson) ==
    IF lesson # <<>>
    THEN [node EXCEPT !.lessons = Append(@, lesson[1]), !.has_content = TRUE]
    ELSE node

\* elif item.is_file(): lesson = _create_lesson_from_file(item, course_path)
BuildFile ==
    /\ Scanning /\ Top.items # <<>>
    /\ ~Hidden(Head(Top.items)) /\ ~IsDir(Head(Top.items)) /\ IsFile(Head(Top.items))
    /\ \E lesson \in {_create_lesson_from_file(PathJoin(Top.path, Head(Top.items).name),
                                               Head(Top.items).name, call[1].path)} :
          call' = SetTop([Top EXCEPT !.items = Tail(@), !.node = AddLesson(@, lesson)])
    /\ UNCHANGED <<fs, current_course, store, clock, threads, response>>

\* KeepChild without the test: every subdirectory is kept
KeepChild_Always(node, child_node) ==
    [node EXCEPT !.children = DictPut(@, child_node), !.has_content = TRUE]

\* if child_node.has_content or child_node.children: keep the child
KeepChild(node, child_node) ==
    IF child_node.has_content \/ child_node.children # <<>>
    THEN [node EXCEPT !.children = DictPut(@, child_node), !.has_content = TRUE]
    ELSE node

\* BuildReturn with the error of the activation raised again in its caller, whose
\* loop it ends
BuildReturn_ErrorPropagates ==
    /\ Len(call) > 1 /\ Top.items = <<>>
    /\ LET caller == call[Len(call) - 1]
       IN call' = [SubSeq(call, 1, Len(call) - 1) EXCEPT ![Len(call) - 1] =
                      [caller EXCEPT !.items = IF Readable(fs, Top.real) THEN Tail(@) ELSE <<>>,
                                     !.node = KeepChild(@, Top.node)]]
    /\ UNCHANGED <<fs, current_course, store, clock, threads, response>>

\* return node, to the calling activation
BuildReturn ==
    /\ Len(call) > 1 /\ Top.items = <<>>
    /\ LET caller == call[Len(call) - 1]
       IN call' = [SubSeq(call, 1, Len(call) - 1) EXCEPT ![Len(call) - 1] =
                      [caller EXCEPT !.items = Tail(@), !.node = KeepChild(@, Top.node)]]
    /\ UNCHANGED <<fs, current_course, store, clock, threads, response>>

(***************************************************************************)
(* DynamicCourseParser._calculate_completion_stats                         *)
(***************************************************************************)
\* the lessons of a list that are completed
RECURSIVE CompletedIn(_)
CompletedIn(lessons) ==
    IF lessons = <<>> THEN 0
    ELSE (IF Head(lessons).completed THEN 1 ELSE 0) + CompletedIn(Tail(lessons))

\* count_lessons_recursive without the descent into the children
count_lessons_own(n) ==
    [total |-> Len(n.lessons), completed |-> CompletedIn(n.lessons)]

\* count_lessons_recursive(n), as the pair it adds to (total_lessons, completed_lessons)
RECURSIVE count_lessons_recursive(_)
RECURSIVE CountChildren(_)
count_lessons_recursive(n) ==
    LET sub == CountChildren(n.children)
    IN [total |-> Len(n.lessons) + sub.total,
        completed |-> CompletedIn(n.lessons) + sub.completed]
CountChildren(children) ==
    IF children = <<>> THEN [total |-> 0, completed |-> 0]
    ELSE LET first == count_lessons_recursive(Head(children))
             rest == CountChildren(Tail(children))
         IN [total |-> first.total + rest.total,
             completed |-> first.completed + rest.completed]

_calculate_completion_stats(node) ==
    LET counted == count_lessons_recursive(node)
    IN [total_lessons |-> counted.total, completed_lessons |-> counted.completed]

(***************************************************************************)
(* load_course and DynamicCourseParser.scan_directory                      *)
(***************************************************************************)
\* LoadCourseRejected with the current course dropped on a failure
LoadCourseRejected_Clears(course_path) ==
    /\ ~Scanning
    /\ ~PathExists(course_path) \/ ~PathIsDir(course_path)
    /\ response' = Response("load_course", IF ~PathExists(course_path) THEN "400" ELSE "500")
    /\ current_course' = <<>>
    /\ UNCHANGED <<fs, call, store, clock, threads>>

\* if not course_path or not os.path.exists(course_path): 400;
\* scan_directory raises ValueError on a path that is no directory: 500
LoadCourseRejected(course_path) ==
    /\ ~Scanning
    /\ ~PathExists(course_path) \/ ~PathIsDir(course_path)
    /\ response' = Response("load_course", IF ~PathExists(course_path) THEN "400" ELSE "500")
    /\ UNCHANGED <<fs, call, current_course, store, clock, threads>>

\* scan_directory calls _build_directory_tree(course_path, course_path)
LoadCourseScan(course_path) ==
    /\ ~Scanning
    /\ PathExists(course_path) /\ PathIsDir(course_path)
    /\ \E items \in Listings(fs, "") :
          call' = <<NewFrame(course_path, course_path, "", 0, items)>>
    /\ response' = Response("load_course", "scanning")
    /\ UNCHANGED <<fs, current_course, store, clock, threads>>

\* the outermost activation returns: current_course = Course(...)
LoadCourseDone ==
    /\ Len(call) = 1 /\ Top.items = <<>>
    /\ current_course' = <<Course(BaseName(Top.path), Top.path, Top.node,
                                  Top.path \o "/.studyingportal_progress.json")>>
    /\ call' = <<>>
    /\ response' = Response("load_course", "200")
    /\ UNCHANGED <<fs, store, clock, threads>>

\* reset_course
ResetCourse ==
    /\ ~Scanning /\ current_course # <<>>
    /\ current_course' = <<>>
    /\ response' = Response("reset_course", "302")
    /\ UNCHANGED <<fs, call, store, clock, threads>>

(***************************************************************************)
(* The environment: the course directory is filled while no course is      *)
(* loaded and is static from the scan on.  It holds at most one symbolic   *)
(* link, which may close a cycle.                                          *)
(***************************************************************************)
FsOpen == ~Scanning /\ current_course = <<>> /\ Cardinality(fs) < MaxEntries

CreateFile(parent, name) ==
    /\ FsOpen /\ ~NameTaken(fs, parent, name)
    /\ fs' = fs \cup {FileEntry(parent, name)}
    /\ UNCHANGED <<call, current_course, store, clock, threads, response>>

MkDir(parent, name, readable) ==
    /\ FsOpen /\ ~NameTaken(fs, parent, name)
    /\ fs' = fs \cup {DirEntry(parent, name, readable)}
    /\ UNCHANGED <<call, current_course, store, clock, threads, response>>

Symlink(parent, target) ==
    /\ FsOpen /\ ~\E e \in fs : e.kind = "link"
    /\ fs' = fs \cup {LinkEntry(parent, target)}
    /\ UNCHANGED <<call, current_course, store, clock, threads, response>>

(***************************************************************************)
(* The progress file: absent, not JSON, or a JSON object that maps keys to *)
(* JSON values.  A value is a JSON object (a function on some of the       *)
(* field names) or, as the value under last_accessed_path and in a         *)
(* malformed file, a JSON string.                                          *)
(***************************************************************************)
EmptyData == [k \in {} |-> ""]
EmptyObj == [f \in {} |-> ""]
JsonObj(obj) == [kind |-> "obj", obj |-> obj, str |-> ""]
JsonStr(str) == [kind |-> "str", obj |-> EmptyObj, str |-> str]
StoreAbsent == [st |-> "absent", data |-> EmptyData]
StoreCorrupt == [st |-> "corrupt", data |-> EmptyData]
StoreOf(data) == [st |-> "ok", data |-> data]

\* d[k] = v
Put(d, k, v) == [x \in DOMAIN d \cup {k} |-> IF x = k THEN v ELSE d[x]]
\* d.get(k, default)
Get(d, k, default) == IF k \in DOMAIN d THEN d[k] ELSE default

\* datetime.now().isoformat()
IsoFormat(t) == "T" \o CharAt(Digits, t + 1)

\* ProgressTracker.load_progress: {} on FileNotFoundError and JSONDecodeError
load_progress(st) == IF st.st = "ok" THEN st.data ELSE EmptyData

\* ProgressTracker.save_progress
save_progress(progress_data) == StoreOf(progress_data)

\* the record update_lesson_progress writes
ProgressRecord(completed, progress_seconds, now) ==
    [f \in {"completed", "progress_seconds", "last_accessed"} |->
        CASE f = "completed" -> completed
          [] f = "progress_seconds" -> progress_seconds
          [] OTHER -> IsoFormat(now)]

\* the mutation of update_lesson_progress that adds the seconds to those on record
Mutate_Accumulate(progress, lesson_path, completed, progress_seconds, now) ==
    LET before == IF lesson_path \in DOMAIN progress /\ progress[lesson_path].kind = "obj"
                  THEN Get(progress[lesson_path].obj, "progress_seconds", 0) ELSE 0
    IN Put(Put(progress, lesson_path,
               JsonObj(ProgressRecord(completed, before + progress_seconds, now))),
           "last_accessed_path", JsonStr(lesson_path))

\* the mutation of update_lesson_progress: progress[lesson_path] = {...};
\* progress['last_accessed_path'] = lesson_path
Mutate(progress, lesson_path, completed, progress_seconds, now) ==
    Put(Put(progress, lesson_path, JsonObj(ProgressRecord(completed, progress_seconds, now))),
        "last_accessed_path", JsonStr(lesson_path))

\* ProgressTracker.update_lesson_progress, run without interruption: the file after it
update_lesson_progress(st, lesson_path, completed, progress_seconds, now) ==
    save_progress(Mutate(load_progress(st), lesson_path, completed, progress_seconds, now))

(***************************************************************************)
(* The keys of a lesson                                                    *)
(***************************************************************************)
\* os.path.relpath(lesson.path, course.path), "\\" replaced, a leading "/" removed
LessonFilePath(lesson, course_path) ==
    LET rel == StrReplace(RelPath(lesson.path, course_path), "\\", "/")
    IN IF StartsWith(rel, "/") THEN StrTail(rel) ELSE rel

\* get_lesson_url: f"{lesson_file_path}/{lesson.title.replace(' ', '_')}"
get_lesson_url(lesson, course_path) ==
    LessonFilePath(lesson, course_path) \o "/" \o StrReplace(lesson.title, " ", "_")

(***************************************************************************)
(* ProgressTracker.apply_progress_to_tree.  A value that is no JSON object *)
(* has no .get: AttributeError ends the traversal where it stands, with    *)
(* the lessons before it updated.  ok tells that nothing was raised.       *)
(***************************************************************************)
ApplyRecord(lesson, value) ==
    IF value.kind = "obj"
    THEN [ok |-> TRUE,
          lesson |-> [lesson EXCEPT
                        !.completed = Get(value.obj, "completed", FALSE),
                        !.last_accessed = Get(value.obj, "last_accessed", NoneVal),
                        !.progress_seconds = Get(value.obj, "progress_seconds", 0)]]
    ELSE [ok |-> FALSE, lesson |-> lesson]

\* the body of the loop over node.lessons with the two tests in the other order
ApplyToLesson_TitleFirst(lesson, progress, course_path) ==
    LET lesson_path == LessonFilePath(lesson, course_path)
        lesson_path_with_title == get_lesson_url(lesson, course_path)
    IN IF lesson_path_with_title \in DOMAIN progress
       THEN ApplyRecord(lesson, progress[lesson_path_with_title])
       ELSE IF lesson_path \in DOMAIN progress
       THEN ApplyRecord(lesson, progress[lesson_path])
       ELSE [ok |-> TRUE, lesson |-> lesson]

\* the body of the loop over node.lessons
ApplyToLesson(lesson, progress, course_path) ==
    LET lesson_path == LessonFilePath(lesson, course_path)
        lesson_path_with_title == get_lesson_url(lesson, course_path)
    IN IF lesson_path \in DOMAIN progress
       THEN ApplyRecord(lesson, progress[lesson_path])
       ELSE IF lesson_path_with_title \in DOMAIN progress
       THEN ApplyRecord(lesson, progress[lesson_path_with_title])
       ELSE [ok |-> TRUE, lesson |-> lesson]

\* for lesson in node.lessons, up to the first exception
RECURSIVE ApplyToLessons(_, _, _)
ApplyToLessons(lessons, progress, course_path) ==
    IF lessons = <<>> THEN [ok |-> TRUE, lessons |-> <<>>]
    ELSE LET first == ApplyToLesson(Head(lessons), progress, course_path)
         IN IF ~first.ok THEN [ok |-> FALSE, lessons |-> lessons]
            ELSE LET rest == ApplyToLessons(Tail(lessons), progress, course_path)
                 IN [ok |-> rest.ok, lessons |-> <<first.lesson>> \o rest.lessons]

\* apply_to_node, and the loop over node.children.values()
RECURSIVE apply_to_node(_, _, _)
RECURSIVE ApplyToChildren(_, _, _)
apply_to_node(node, progress, course_path) ==
    LET own == ApplyToLessons(node.lessons, progress, course_path)
    IN IF ~own.ok THEN [ok |-> FALSE, node |-> [node EXCEPT !.lessons = own.lessons]]
       ELSE LET sub == ApplyToChildren(node.children, progress, course_path)
            IN [ok |-> sub.ok,
                node |-> [node EXCEPT !.lessons = own.lessons, !.children = sub.children]]
ApplyToChildren(children, progress, course_path) ==
    IF children = <<>> THEN [ok |-> TRUE, children |-> <<>>]
    ELSE LET first == apply_to_node(Head(children), progress, course_path)
         IN IF ~first.ok
            THEN [ok |-> FALSE, children |-> <<first.node>> \o Tail(children)]
            ELSE LET rest == ApplyToChildren(Tail(children), progress, course_path)
                 IN [ok |-> rest.ok, children |-> <<first.node>> \o rest.children]

\* apply_progress_to_tree(course): the course after it, and whether it returned
apply_progress_to_tree(course, st) ==
    LET progress == load_progress(st)
        applied == apply_to_node(course.root_node, progress, course.path)
    IN [ok |-> applied.ok,
        course |-> IF applied.ok
                   THEN [course EXCEPT
                           !.root_node = applied.node,
                           !.last_accessed_path =
                               IF "last_accessed_path" \in DOMAIN progress
                               THEN progress["last_accessed_path"].str ELSE NoneVal]
                   ELSE [course EXCEPT !.root_node = applied.node]]

(***************************************************************************)
(* find_lesson_in_tree: <<>> for None                                      *)
(***************************************************************************)
\* FindInLessons that accepts the composite key only
RECURSIVE FindInLessons_UrlOnly(_, _, _)
FindInLessons_UrlOnly(lessons, target_path, course_path) ==
    IF lessons = <<>> THEN <<>>
    ELSE IF get_lesson_url(Head(lessons), course_path) = target_path
         THEN <<Head(lessons)>>
         ELSE FindInLessons_UrlOnly(Tail(lessons), target_path, course_path)

RECURSIVE FindInLessons(_, _, _)
FindInLessons(lessons, target_path, course_path) ==
    IF lessons = <<>> THEN <<>>
    ELSE IF \/ get_lesson_url(Head(lessons), course_path) = target_path
            \/ LessonFilePath(Head(lessons), course_path) = target_path
         THEN <<Head(lessons)>>
         ELSE FindInLessons(Tail(lessons), target_path, course_path)

RECURSIVE find_lesson_in_tree(_, _, _)
RECURSIVE FindInChildren(_, _, _)
find_lesson_in_tree(node, target_path, course_path) ==
    LET own == FindInLessons(node.lessons, target_path, course_path)
    IN IF own # <<>> THEN own ELSE FindInChildren(node.children, target_path, course_path)
FindInChildren(children, target_path, course_path) ==
    IF children = <<>> THEN <<>>
    ELSE LET result == find_lesson_in_tree(Head(children), target_path, course_path)
         IN IF result # <<>> THEN result
            ELSE FindInChildren(Tail(children), target_path, course_path)

(***************************************************************************)
(* The request handlers index, view_lesson and update_progress, each run   *)
(* without interruption.  A handler that writes the progress file reads    *)
(* the clock, which has moved on since the write before.                   *)
(***************************************************************************)
\* the keys and values the requests of the model carry
RequestKeys == {"a.mp4", "a.mp4/A", "m/2-b_c.txt/B_C"}
\* the keys of the lesson pages requested: the same, and the key of no lesson
ViewKeys == RequestKeys \cup {"m/a.mp4"}
ProgressInputs == {[completed |-> TRUE, progress_seconds |-> 120],
                   [completed |-> FALSE, progress_seconds |-> 30]}

RequestResponse(op, status, lesson_path, completed, progress_seconds) ==
    [op |-> op, status |-> status, lesson_path |-> lesson_path, completed |-> completed,
     progress_seconds |-> progress_seconds,
     repeat |-> /\ response.op = op /\ response.status = status
                /\ response.lesson_path = lesson_path
                /\ response.completed = completed
                /\ response.progress_seconds = progress_seconds]

Idle == ~Scanning /\ threads = {}

\* index: apply_progress_to_tree, then the statistics
Index ==
    /\ Idle
    /\ IF current_course = <<>>
       THEN /\ response' = Response("index", "200")
            /\ UNCHANGED current_course
       ELSE LET applied == apply_progress_to_tree(current_course[1], store)
            IN /\ current_course' = <<applied.course>>
               /\ response' = Response("index", IF applied.ok THEN "200" ELSE "500")
    /\ UNCHANGED <<fs, call, store, clock, threads>>

\* view_lesson: find the lesson, then update_lesson_progress(current_course, lesson_path)
ViewLesson(lesson_path) ==
    /\ Idle /\ clock < MaxClock
    /\ IF \/ current_course = <<>>
          \/ find_lesson_in_tree(current_course[1].root_node, lesson_path,
                                 current_course[1].path) = <<>>
       THEN /\ response' = RequestResponse("view_lesson", "302", lesson_path, FALSE, 0)
            /\ UNCHANGED <<store, clock>>
       ELSE /\ clock' = clock + 1
            /\ store' = update_lesson_progress(store, lesson_path, FALSE, 0, clock + 1)
            /\ response' = RequestResponse("view_lesson", "200", lesson_path, FALSE, 0)
    /\ UNCHANGED <<fs, call, current_course, threads>>

\* update_progress: update_lesson_progress(current_course, lesson_path, completed,
\* progress_seconds)
UpdateProgress(lesson_path, completed, progress_seconds) ==
    /\ Idle /\ clock < MaxClock
    /\ IF current_course = <<>>
       THEN /\ response' = RequestResponse("update_progress", "400", lesson_path,
                                           completed, progress_seconds)
            /\ UNCHANGED <<store, clock>>
       ELSE /\ clock' = clock + 1
            /\ store' = update_lesson_progress(store, lesson_path, completed,
                                               progress_seconds, clock + 1)
            /\ response' = RequestResponse("update_progress", "200", lesson_path,
                                           completed, progress_seconds)
    /\ UNCHANGED <<fs, call, current_course, threads>>

(***************************************************************************)
(* The environment of the progress file: it is deleted, or left as text    *)
(* that is no JSON.                                                        *)
(***************************************************************************)
StoreDeleted ==
    /\ Idle /\ store.st # "absent"
    /\ store' = StoreAbsent
    /\ response' = Response("environment", "")
    /\ UNCHANGED <<fs, call, current_course, clock, threads>>

StoreCorrupted ==
    /\ Idle /\ store.st = "ok"
    /\ store' = StoreCorrupt
    /\ response' = Response("environment", "")
    /\ UNCHANGED <<fs, call, current_course, clock, threads>>

\* a course whose directories nest one level deeper than the scan descends, with a
\* video in the deepest directory and one in the directory above it
RECURSIVE NestedDirs(_, _)
NestedDirs(parent, levels) ==
    IF levels = 0 THEN {}
    ELSE {DirEntry(parent, "m", TRUE)} \cup NestedDirs(PathJoin(parent, "m"), levels - 1)
RECURSIVE NestedPath(_)
NestedPath(levels) == IF levels = 0 THEN "" ELSE PathJoin(NestedPath(levels - 1), "m")
DeepCourse ==
    NestedDirs("", MAX_DEPTH + 1)
        \cup {FileEntry(NestedPath(MAX_DEPTH + 1), "a.mp4"), FileEntry(NestedPath(MAX_DEPTH), "a.mp4")}

InitScan ==
    /\ fs \in {{}, DeepCourse}
    /\ call = <<>>
    /\ current_course = <<>>
    /\ store = StoreAbsent
    /\ clock = 0
    /\ threads = {}
    /\ response = Response("start", "200")

ScanStep == BuildSkipHidden \/ BuildRecurse \/ BuildFile \/ BuildReturn \/ LoadCourseDone

NextScan ==
    \/ \E parent \in RealDirs(fs), name \in FileNames : CreateFile(parent, name)
    \/ \E parent \in RealDirs(fs), name \in DirNames, readable \in BOOLEAN :
          MkDir(parent, name, readable)
    \/ \E parent \in RealDirs(fs), target \in RealDirs(fs) : Symlink(parent, target)
    \/ \E course_path \in CoursePathInputs : LoadCourseRejected(course_path)
    \/ \E course_path \in CoursePathInputs : LoadCourseScan(course_path)
    \/ ScanStep
    \/ ResetCourse

SpecScan == InitScan /\ [][NextScan]_vars

(***************************************************************************)
(* Loading a course directory that holds one file, for every file name     *)
(* made of one of the stems and one of the extensions.                     *)
(***************************************************************************)
Stems == {"a", "Quiz1", "my-test", "latest", "01_intro", "1-2-intro", "3_", ".h"}
Extensions ==
    {".mp4", ".MKV", ".webm", ".mp3", ".wav", ".flac", ".srt", ".vtt", ".txt", ".TXT",
     ".md", ".pdf", ".html", ".docx", ".log", ".tmp", ".bak", ".DS_Store", ".py", ""}

InitClassify ==
    /\ fs \in {{FileEntry("", stem \o ext)} : stem \in Stems, ext \in Extensions}
    /\ call = <<>>
    /\ current_course = <<>>
    /\ store = StoreAbsent
    /\ clock = 0
    /\ threads = {}
    /\ response = Response("start", "200")

NextClassify ==
    \/ LoadCourseScan(CoursePath)
    \/ BuildSkipHidden
    \/ BuildFile
    \/ LoadCourseDone
    \/ ResetCourse

SpecClassify == InitClassify /\ [][NextClassify]_vars

(***************************************************************************)
(* Loading and reloading one static course directory in which names differ *)
(* only in letter case.                                                    *)
(***************************************************************************)
CaseCourse ==
    {FileEntry("", "a.mp4"), FileEntry("", "A.mp4"),
     DirEntry("", "m", TRUE), DirEntry("", "M", TRUE), DirEntry("", ".g", TRUE),
     FileEntry("m", "a.mp4"), FileEntry("M", "a.mp4")}

InitCase ==
    /\ fs = CaseCourse
    /\ call = <<>>
    /\ current_course = <<>>
    /\ store = StoreAbsent
    /\ clock = 0
    /\ threads = {}
    /\ response = Response("start", "200")

NextCase ==
    \/ \E course_path \in CoursePathInputs : LoadCourseRejected(course_path)
    \/ \E course_path \in CoursePathInputs : LoadCourseScan(course_path)
    \/ ScanStep
    \/ ResetCourse

SpecCase == InitCase /\ [][NextCase]_vars

(***************************************************************************)
(* The handlers on one course directory, with a progress file that may     *)
(* hold records of earlier runs.                                           *)
(***************************************************************************)
\* a lesson in the course directory, one in a subdirectory, a hidden directory
StudyCourse ==
    {FileEntry("", "a.mp4"), DirEntry("", "m", TRUE), FileEntry("m", "2-b_c.txt"),
     DirEntry("", ".g", TRUE)}

\* a JSON object with the fields given
Fields(names, completed, progress_seconds, last_accessed) ==
    [f \in names |->
        CASE f = "completed" -> completed
          [] f = "progress_seconds" -> progress_seconds
          [] OTHER -> last_accessed]
AllFields == {"completed", "progress_seconds", "last_accessed"}

\* a record under the title key of a.mp4 and a record without all fields
LegacyData ==
    Put(Put(EmptyData, "a.mp4/A", JsonObj(Fields(AllFields, TRUE, 120, "T0"))),
        "m/2-b_c.txt", JsonObj(Fields({"completed"}, TRUE, 0, "")))
\* records under both keys of a.mp4
BothKeysData ==
    Put(Put(EmptyData, "a.mp4", JsonObj(Fields(AllFields, FALSE, 30, "T0"))),
        "a.mp4/A", JsonObj(Fields(AllFields, TRUE, 120, "T0")))
\* a value that is no record under the key of m/2-b_c.txt, after a record of a.mp4
MalformedData ==
    Put(Put(EmptyData, "a.mp4", JsonObj(Fields(AllFields, TRUE, 120, "T0"))),
        "m/2-b_c.txt", JsonStr("done"))
PriorStores == {StoreAbsent, StoreOf(LegacyData), StoreOf(BothKeysData), StoreOf(MalformedData)}

Init ==
    /\ fs = StudyCourse
    /\ call = <<>>
    /\ current_course = <<>>
    /\ store \in PriorStores
    /\ clock = 0
    /\ threads = {}
    /\ response = Response("start", "200")

Next ==
    \/ \E course_path \in CoursePathInputs : LoadCourseRejected(course_path)
    \/ \E course_path \in CoursePathInputs : LoadCourseScan(course_path)
    \/ ScanStep
    \/ ResetCourse
    \/ Index
    \/ \E lesson_path \in ViewKeys : ViewLesson(lesson_path)
    \/ \E lesson_path \in RequestKeys, in \in ProgressInputs :
          UpdateProgress(lesson_path, in.completed, in.progress_seconds)
    \/ StoreDeleted
    \/ StoreCorrupted

Spec == Init /\ [][Next]_vars

(***************************************************************************)
(* update_lesson_progress in concurrent requests (the server handles each  *)
(* request in a thread of its own): a thread reads the file, then mutates  *)
(* what it read and writes it back.                                        *)
(***************************************************************************)
\* progress = ProgressTracker.load_progress(course)
UpdateLoad(lesson_path, completed, progress_seconds) ==
    /\ ~Scanning /\ current_course # <<>>
    /\ Cardinality(threads) < MaxThreads
    /\ \A t \in threads : t.lesson_path # lesson_path
    /\ threads' = threads \cup {[lesson_path |-> lesson_path, completed |-> completed,
                                 progress_seconds |-> progress_seconds,
                                 progress |-> load_progress(store)]}
    /\ UNCHANGED <<fs, call, current_course, store, clock, response>>

\* progress[lesson_path] = {...}; ...; ProgressTracker.save_progress(course, progress)
UpdateSave(t) ==
    /\ t \in threads /\ clock < MaxClock
    /\ clock' = clock + 1
    /\ store' = save_progress(Mutate(t.progress, t.lesson_path, t.completed,
                                     t.progress_seconds, clock + 1))
    /\ threads' = threads \ {t}
    /\ response' = RequestResponse("update_progress", "200", t.lesson_path, t.completed,
                                   t.progress_seconds)
    /\ UNCHANGED <<fs, call, current_course>>

NextConcurrent ==
    \/ LoadCourseScan(CoursePath)
    \/ ScanStep
    \/ \E lesson_path \in RequestKeys, in \in ProgressInputs :
          UpdateLoad(lesson_path, in.completed, in.progress_seconds)
    \/ \E t \in threads : UpdateSave(t)

SpecConcurrent == Init /\ [][NextConcurrent]_vars

(***************************************************************************)
(* Properties of the scan                                                  *)
(***************************************************************************)
Loaded == current_course # <<>>
Root == current_course[1].root_node

RECURSIVE HoldsLesson(_)
HoldsLesson(n) ==
    n.lessons # <<>> \/ \E i \in 1..Len(n.children) : HoldsLesson(n.children[i])

RECURSIVE Pruned(_)
Pruned(n) ==
    /\ n.has_content <=> HoldsLesson(n)
    /\ \A i \in 1..Len(n.children) :
          /\ n.children[i].has_content
          /\ HoldsLesson(n.children[i])
          /\ Pruned(n.children[i])

\* C8: in the tree of the loaded course every directory kept in a children map has
\* has_content set and holds a lesson somewhere below it, and has_content of any
\* node is true exactly when the node's subtree holds a lesson.
C8_KeptDirectoriesHoldLessons == Loaded => Pruned(Root)

\* a loaded tree that kept the subdirectory m, which itself dropped a lesson-free
\* subdirectory
C8_Witness ==
    /\ Loaded
    /\ Len(Root.children) = 1 /\ Root.children[1].name = "m"
    /\ Root.children[1].children = <<>>
    /\ \E e \in fs : e.parent = "m" /\ IsDir(e) /\ ~Hidden(e)

\* the file name passes classification
Qualifies(name) == _create_lesson_from_file(PathJoin(CoursePath, name), name, CoursePath) # <<>>

\* the files below the course directory that are not hidden and that the classifier
\* turns into a lesson
QualifyingFiles(f) == {e \in f : IsFile(e) /\ ~Hidden(e) /\ Qualifies(e.name)}

\* the qualifying files the scan reaches from the real directory at the depth:
\* through readable, non-hidden directories, down to depth MAX_DEPTH, a file
\* counted once for every path that leads to it
RECURSIVE ReachedFrom(_, _, _, _)
RECURSIVE ReachedBelow(_, _, _, _)
ReachedFrom(f, qualifying, real, depth) ==
    IF depth > MAX_DEPTH \/ ~Readable(f, real) THEN 0
    ELSE Cardinality({e \in qualifying : e.parent = real})
            + ReachedBelow(f, qualifying,
                           {e \in f : e.parent = real /\ IsDir(e) /\ ~Hidden(e)}, depth)
ReachedBelow(f, qualifying, es, depth) ==
    IF es = {} THEN 0
    ELSE LET e == CHOOSE x \in es : TRUE
         IN ReachedFrom(f, qualifying, RealOf(e), depth + 1)
                + ReachedBelow(f, qualifying, es \ {e}, depth)
ReachedFiles(f) == ReachedFrom(f, QualifyingFiles(f), "", 0)

Stats == _calculate_completion_stats(Root)

\* every directory is readable and not hidden, and there is no link
PlainTree(f) == \A e \in f : e.kind # "link" /\ (e.kind = "dir" => e.readable /\ ~Hidden(e))

\* C9 as stated: on a tree of plain directories, total_lessons is the number of
\* qualifying files anywhere under the course root, at every nesting depth.
C9_TotalCountsEveryDepth ==
    (Loaded /\ PlainTree(fs)) =>
        /\ Stats.total_lessons = Cardinality(QualifyingFiles(fs))
        /\ 0 <= Stats.completed_lessons /\ Stats.completed_lessons <= Stats.total_lessons

\* C9 as amended: total_lessons is the number of qualifying files the scan reaches
\* (in readable, non-hidden directories at depth 10 or less, once per path), and
\* 0 <= completed_lessons <= total_lessons.
C9_TotalCountsReachedFiles ==
    Loaded =>
        /\ Stats.total_lessons = ReachedFiles(fs)
        /\ 0 <= Stats.completed_lessons /\ Stats.completed_lessons <= Stats.total_lessons

\* a loaded course with a lesson in a subdirectory and a qualifying file the scan
\* did not reach
C9_Witness ==
    /\ Loaded
    /\ \E i \in 1..Len(Root.children) : HoldsLesson(Root.children[i])
    /\ Stats.total_lessons < Cardinality(QualifyingFiles(fs))

\* no activation is deeper than MAX_DEPTH + 1, and one at that depth has nothing to
\* process and returns an empty node
DepthCapped ==
    \A i \in 1..Len(call) :
        /\ call[i].depth = i - 1
        /\ call[i].depth <= MAX_DEPTH + 1
        /\ call[i].depth = MAX_DEPTH + 1 =>
              /\ call[i].items = <<>>
              /\ call[i].node.lessons = <<>> /\ call[i].node.children = <<>>
              /\ ~call[i].node.has_content

\* what is left to do in a scan: whether it runs and, for every depth, twice the
\* items of the activation at that depth, less one when it waits for a recursive call
ScanMeasure(c) ==
    [i \in 0..(MAX_DEPTH + 2) |->
        IF i = 0 THEN (IF c # <<>> THEN 1 ELSE 0)
        ELSE IF i > Len(c) THEN 0
        ELSE 2 * Len(c[i].items) - (IF i < Len(c) THEN 1 ELSE 0)]

\* a is below b in the lexicographic order, which is well-founded
LexLess(a, b) ==
    \E k \in DOMAIN a : a[k] < b[k] /\ \A j \in DOMAIN a : j < k => a[j] = b[j]

\* a running scan can take its next step: the innermost activation returns, or its
\* first item is skipped, descended into or classified
ScanCanStep ==
    Scanning =>
        \/ Top.items = <<>>
        \/ Hidden(Head(Top.items)) \/ IsDir(Head(Top.items)) \/ IsFile(Head(Top.items))

\* C10: the scan always returns (also on a cycle of directory links): it can always
\* take a step and every step brings it closer to its return in a well-founded
\* order; it never calls _build_directory_tree with a depth above 11, and a
\* directory at depth 11 yields an empty node.
C10_ScanTerminates ==
    /\ [](DepthCapped /\ ScanCanStep)
    /\ [][Scanning => LexLess(ScanMeasure(call'), ScanMeasure(call))]_call

\* the scan has called itself for a directory at depth 11, reached through a link
\* that closes a cycle
C10_Witness ==
    /\ Scanning /\ Top.depth = MAX_DEPTH + 1
    /\ \E e \in fs : e.kind = "link"

(***************************************************************************)
(* Properties of the progress store and of reconciliation                  *)
(***************************************************************************)
\* the lessons of a tree: a node's own lessons, then those of its children
RECURSIVE LessonsOf(_)
RECURSIVE LessonsOfAll(_)
LessonsOf(node) == node.lessons \o LessonsOfAll(node.children)
LessonsOfAll(children) ==
    IF children = <<>> THEN <<>> ELSE LessonsOf(Head(children)) \o LessonsOfAll(Tail(children))

Range(seq) == {seq[i] : i \in DOMAIN seq}
CourseLessons(course) == Range(LessonsOf(course[1].root_node))
PrimaryKey(lesson) == LessonFilePath(lesson, CoursePath)
SecondaryKey(lesson) == PrimaryKey(lesson) \o "/" \o StrReplace(lesson.title, " ", "_")
Names(lesson, key) == key \in {PrimaryKey(lesson), SecondaryKey(lesson)}

Wrote(r) == r.op \in {"update_progress", "view_lesson"} /\ r.status = "200"
Reconciled(r) == r.op = "index" /\ r.status = "200"

\* C1: a progress update for a lesson, by the key the caller uses, followed by a
\* reload of the store and a reconciliation that returns, leaves the lesson with
\* the completed and progress_seconds written.
C1_RoundTrip ==
    [][(Wrote(response) /\ response.op = "update_progress"
        /\ Reconciled(response') /\ current_course' # <<>>) =>
          \A lesson \in CourseLessons(current_course') :
              Names(lesson, response.lesson_path) =>
                  /\ lesson.completed = response.completed
                  /\ lesson.progress_seconds = response.progress_seconds]_vars

\* C2: a progress write for a lesson, by either key, adds no key to the store but
\* the lesson's primary key (and last_accessed_path), and the primary key is there.
C2_WritesUnderPrimaryKey ==
    [][(Wrote(response') /\ store' # store) =>
          \A lesson \in CourseLessons(current_course) :
              Names(lesson, response'.lesson_path) =>
                  /\ PrimaryKey(lesson) \in DOMAIN store'.data
                  /\ (DOMAIN store'.data \ DOMAIN load_progress(store))
                        \subseteq {PrimaryKey(lesson), "last_accessed_path"}]_vars

\* C3: a write of the progress file keeps every record the file held before it, so
\* that of two concurrent updates with distinct keys neither is lost.
C3_NoLostUpdate ==
    [][DOMAIN load_progress(store) \subseteq DOMAIN load_progress(store')]_store

\* C4: after a reconciliation, a lesson with neither key in the store is at its
\* defaults, whatever was applied to the tree before.
C4_UnmatchedLessonsAtDefaults ==
    (Loaded /\ Reconciled(response)) =>
        \A lesson \in CourseLessons(current_course) :
            (/\ PrimaryKey(lesson) \notin DOMAIN load_progress(store)
             /\ SecondaryKey(lesson) \notin DOMAIN load_progress(store))
                => ~lesson.completed /\ lesson.progress_seconds = 0

\* the lesson carries the fields of the record, false, 0 and None for a missing one
Carries(lesson, value) ==
    /\ value.kind = "obj"
    /\ lesson.completed = (IF "completed" \in DOMAIN value.obj THEN value.obj["completed"] ELSE FALSE)
    /\ lesson.progress_seconds =
          (IF "progress_seconds" \in DOMAIN value.obj THEN value.obj["progress_seconds"] ELSE 0)
    /\ lesson.last_accessed =
          (IF "last_accessed" \in DOMAIN value.obj THEN value.obj["last_accessed"] ELSE NoneVal)

\* C5: after a reconciliation that returned, every lesson whose primary key is in
\* the store carries the record under the primary key, and every other lesson whose
\* secondary key is in the store carries the record under the secondary key.
C5_PrimaryThenSecondary ==
    (Loaded /\ Reconciled(response)) =>
        \A lesson \in CourseLessons(current_course) :
            LET progress == load_progress(store)
            IN /\ PrimaryKey(lesson) \in DOMAIN progress =>
                     Carries(lesson, progress[PrimaryKey(lesson)])
               /\ (PrimaryKey(lesson) \notin DOMAIN progress
                   /\ SecondaryKey(lesson) \in DOMAIN progress) =>
                     Carries(lesson, progress[SecondaryKey(lesson)])

\* reconciled: a lesson with different records under its two keys, and a lesson
\* whose record lacks fields
C5_Witness ==
    /\ Loaded /\ Reconciled(response)
    /\ \E lesson \in CourseLessons(current_course) :
          /\ PrimaryKey(lesson) \in DOMAIN store.data
          /\ SecondaryKey(lesson) \in DOMAIN store.data
          /\ store.data[PrimaryKey(lesson)] # store.data[SecondaryKey(lesson)]
          /\ lesson.progress_seconds > 0

\* the request answered is a progress write that repeats the write before it
RepeatedWrite(r) == Wrote(r) /\ r.repeat

\* C6 as stated: the second of two equal writes in succession leaves the store as
\* the first left it, last_accessed included.
C6_SecondWriteChangesNothing ==
    [][RepeatedWrite(response') => store' = store]_vars

\* the record under the key without its last_accessed
WithoutLastAccessed(st, key) ==
    IF key \in DOMAIN st.data /\ st.data[key].kind = "obj"
    THEN [st EXCEPT !.data[key].obj =
            [f \in DOMAIN @ \ {"last_accessed"} |-> @[f]]]
    ELSE st

\* C6 as amended: the second of two equal writes in succession changes nothing in
\* the store but the last_accessed of the record written, which is the time of the
\* second write.
C6_SecondWriteChangesTimestampOnly ==
    [][RepeatedWrite(response') =>
          /\ WithoutLastAccessed(store', response'.lesson_path)
                = WithoutLastAccessed(store, response'.lesson_path)
          /\ store'.data[response'.lesson_path].obj["last_accessed"] = IsoFormat(clock')]_vars

\* a progress update has just been repeated
C6_Witness == RepeatedWrite(response) /\ response.op = "update_progress"

\* C7: reconciliation returns whatever the store holds, and a lesson whose record
\* is malformed is left at its defaults.
C7_ReconcileNeverRaises ==
    (Loaded /\ response.op = "index") =>
        /\ response.status = "200"
        /\ \A lesson \in CourseLessons(current_course) :
              (/\ PrimaryKey(lesson) \in DOMAIN load_progress(store)
               /\ load_progress(store)[PrimaryKey(lesson)].kind # "obj")
                  => ~lesson.completed /\ lesson.progress_seconds = 0

(***************************************************************************)
(* Determinism of the scan                                                 *)
(***************************************************************************)
\* C11: the directory does not change while a course is loaded, so a scan that
\* replaces a loaded course (whatever order the OS listed the entries in) builds
\* the very tree the course had: same nodes, same order of children and lessons.
C11_RescanBuildsSameTree ==
    [][(current_course # <<>> /\ current_course' # <<>>) =>
          current_course' = current_course]_current_course



(***************************************************************************)
(* Loading a course                                                        *)
(***************************************************************************)
LoadFailed(r) == r.op = "load_course" /\ r.status \in {"400", "500"}

\* C12: a scan only ever runs on a root that exists and is a directory; a
\* load_course that fails leaves the current course as it was; the current course
\* is untouched while a scan runs, and is replaced only in the one step in which
\* the outermost activation returns, by the tree that activation has finished.
C12_LoadIsAllOrNothing ==
    /\ [](Scanning => PathExists(call[1].path) /\ PathIsDir(call[1].path))
    /\ [][LoadFailed(response') => current_course' = current_course /\ ~Scanning']_vars
    /\ [][(Scanning /\ Scanning') => current_course' = current_course]_vars
    /\ [][(current_course' # current_course /\ current_course' # <<>>) =>
             /\ Len(call) = 1 /\ Top.items = <<>> /\ ~Scanning'
             /\ current_course'[1].root_node = Top.node
             /\ response'.status = "200"]_vars

\* a load of a path that is no directory has failed while a course with lessons
\* was loaded
C12_Witness ==
    /\ response.op = "load_course" /\ response.status = "500"
    /\ Loaded /\ HoldsLesson(Root)

(***************************************************************************)
(* Lesson lookup                                                           *)
(***************************************************************************)
\* the first lesson of a sequence that the key names, <<>> when there is none
RECURSIVE FirstNamed(_, _)
FirstNamed(lessons, key) ==
    IF lessons = <<>> THEN <<>>
    ELSE IF Names(Head(lessons), key) THEN <<Head(lessons)>>
         ELSE FirstNamed(Tail(lessons), key)

HasExtension(name, extensions) == StrLower(PathSuffix(name)) \in extensions
NamesQuiz(name) == \E indicator \in QUIZ_INDICATORS : Contains(StrLower(name), indicator)

\* the lessons classification is to make of a file of the course directory: none,
\* or one lesson of the kind given, which holds the file in the field of its kind
NoLesson(lessons) == lessons = <<>>
OneLesson(lessons, kind, video_file, audio_file, text_files) ==
    /\ Len(lessons) = 1
    /\ lessons[1].lesson_type = kind
    /\ lessons[1].video_file = video_file
    /\ lessons[1].audio_file = audio_file
    /\ lessons[1].subtitle_file = NoneVal
    /\ lessons[1].text_files = text_files

Classified(name, lessons) ==
    IF HasExtension(name, IGNORED_EXTENSIONS) THEN NoLesson(lessons)
    ELSE IF HasExtension(name, VIDEO_EXTENSIONS)
         THEN OneLesson(lessons, "video", name, NoneVal, <<>>)
    ELSE IF HasExtension(name, AUDIO_EXTENSIONS)
         THEN OneLesson(lessons, "audio", NoneVal, name, <<>>)
    ELSE IF HasExtension(name, SUBTITLE_EXTENSIONS) THEN NoLesson(lessons)
    ELSE IF HasExtension(name, TEXT_EXTENSIONS)
         THEN OneLesson(lessons, IF NamesQuiz(name) THEN "quiz" ELSE "text",
                        NoneVal, NoneVal, <<name>>)
    ELSE NoLesson(lessons)

\* C14: the lessons of a course loaded from a directory with one file are those the
\* rules give in their order: none for an ignored extension, a video for a video
\* extension whatever the name, an audio for an audio extension, none for a
\* subtitle, a quiz or a text for a document according to the quiz indicators in
\* the lower-cased file name, none for anything else (and none for a hidden file);
\* every lesson has one of the four kinds.
C14_ClassifiedByRuleOrder ==
    Loaded =>
        \A e \in fs :
            /\ IF Hidden(e) THEN NoLesson(Root.lessons) ELSE Classified(e.name, Root.lessons)
            /\ \A i \in 1..Len(Root.lessons) :
                  Root.lessons[i].lesson_type \in {"video", "audio", "text", "quiz"}

\* a video whose name holds a quiz indicator was loaded as a video
C14_Witness ==
    /\ Loaded /\ fs = {FileEntry("", "Quiz1.mp4")}
    /\ Len(Root.lessons) = 1 /\ Root.lessons[1].lesson_type = "video"



(***************************************************************************)
(* Lesson names                                                            *)
(***************************************************************************)
\* C15: the title of every lesson of a loaded course, which is the normalized stem
\* of its file, is not empty and is left as it is by another normalization.
C15_NormalizeIdempotent ==
    Loaded =>
        \A lesson \in CourseLessons(current_course) :
            /\ lesson.title # ""
            /\ _clean_lesson_name(lesson.title) = lesson.title

(***************************************************************************)
(* Progress across scans and lesson pages                                  *)
(***************************************************************************)
\* the record reconciliation is to apply to the lesson: the one under the primary
\* key, else the one under the secondary key; <<>> when the store has neither
RecordOf(lesson, progress) ==
    IF PrimaryKey(lesson) \in DOMAIN progress THEN <<progress[PrimaryKey(lesson)]>>
    ELSE IF SecondaryKey(lesson) \in DOMAIN progress THEN <<progress[SecondaryKey(lesson)]>>
    ELSE <<>>

\* the lesson has the completed and progress_seconds of its record in the store
Attached(lesson, progress) ==
    \A value \in Range(RecordOf(lesson, progress)) :
        (value.kind = "obj" /\ {"completed", "progress_seconds"} \subseteq DOMAIN value.obj) =>
            /\ lesson.completed = value.obj["completed"]
            /\ lesson.progress_seconds = value.obj["progress_seconds"]

\* C16: whenever view_lesson serves a lesson page of the loaded course, every
\* lesson of the tree that has a record in the store as the request found it
\* carries that record's completed and progress_seconds.
C16_ProgressAttachedWhenServed ==
    [][(response'.op = "view_lesson" /\ response'.status = "200") =>
          \A lesson \in CourseLessons(current_course) :
              Attached(lesson, load_progress(store))]_vars

(***************************************************************************)
(* Access errors during the scan                                           *)
(***************************************************************************)
\* the filesystem with every directory readable and the directories that cannot be
\* listed empty
Emptied(f) == {[e EXCEPT !.readable = TRUE] : e \in {x \in f : Readable(f, x.parent)}}

\* the tree of a directory all of whose directories can be listed, by recursion on
\* the directory: the depth check, then the items in sorted order
RECURSIVE ScanTree(_, _, _, _)
RECURSIVE ScanItems(_, _, _, _, _)
ScanTree(f, current_path, real, depth) ==
    IF depth > MAX_DEPTH
    THEN DirectoryNode(BaseName(current_path), current_path, "directory", 0)
    ELSE ScanItems(f,
                   DirectoryNode(IF current_path # CoursePath
                                 THEN BaseName(current_path) ELSE "Course Root",
                                 current_path, "directory", depth),
                   CHOOSE s \in SortedListings(f, real) : TRUE,
                   current_path, depth)
ScanItems(f, node, items, current_path, depth) ==
    IF items = <<>> THEN node
    ELSE LET item == Head(items)
             item_path == PathJoin(current_path, item.name)
             next == IF Hidden(item) THEN node
                     ELSE IF IsDir(item)
                          THEN KeepChild(node, ScanTree(f, item_path, RealOf(item), depth + 1))
                     ELSE IF IsFile(item)
                          THEN AddLesson(node, _create_lesson_from_file(item_path, item.name,
                                                                        CoursePath))
                     ELSE node
         IN ScanItems(f, next, Tail(items), current_path, depth)

\* C17: the tree load_course has just built is the tree the scan builds of the same
\* directory with the directories that cannot be listed empty: the scan returns,
\* such a directory contributes nothing, and the lessons and children of every
\* other directory are all there, in the same places.
C17_AccessErrorEmptiesDirectoryOnly ==
    (Loaded /\ response = Response("load_course", "200")) =>
        Root = ScanTree(Emptied(fs), CoursePath, "", 0)

\* a course was loaded whose directory m, which holds a video, cannot be listed;
\* the video that lies next to m is a lesson of the root
C17_Witness ==
    /\ Loaded /\ response = Response("load_course", "200")
    /\ DirEntry("", "m", FALSE) \in fs /\ FileEntry("m", "a.mp4") \in fs
    /\ FileEntry("", "a.mp4") \in fs
    /\ Len(Root.lessons) = 1 /\ Root.children = <<>>



\* the record holds the progress of a lesson
HoldsProgress(value) ==
    value.kind = "obj" /\ {"completed", "progress_seconds"} \subseteq DOMAIN value.obj

\* C18: a lesson page served for a lesson whose record holds progress leaves the
\* record that reconciliation applies to the lesson with the same completed and
\* progress_seconds.
C18_ViewKeepsProgress ==
    [][(response'.op = "view_lesson" /\ response'.status = "200") =>
          \A lesson \in CourseLessons(current_course) :
              Names(lesson, response'.lesson_path) =>
                  \A before \in Range(RecordOf(lesson, load_progress(store))),
                     after \in Range(RecordOf(lesson, load_progress(store'))) :
                      HoldsProgress(before) =>
                          /\ HoldsProgress(after)
                          /\ after.obj["completed"] = before.obj["completed"]
                          /\ after.obj["progress_seconds"] = before.obj["progress_seconds"]]_vars



=============================================================================
